---------------------------- MODULE Spec2Model ----------------------------
(***************************************************************************)
(* AWS-GameServer-Ondemand: two AWS Lambda handlers.                       *)
(*                                                                         *)
(*   lambda/lambda_function.py        ServiceAutoStarter (lambda_handler)  *)
(*   notifier/lambda_sns_function.py  WebhookNotifier (notifyDiscordWebhook)*)
(*                                                                         *)
(* A Python str is a sequence of code points, a bytes object a sequence of *)
(* integers 0..255.  A value that may be None is a record                  *)
(* [none, str]; None is the record with none = TRUE.                       *)
(***************************************************************************)
EXTENDS Integers, Sequences, FiniteSets, TLC

VARIABLES
    starterEnv,          \* os.environ of the process that imports lambda_function.py
    lambda_function,     \* module globals of lambda_function.py and its import state
    ecs,                 \* desiredCount of the service held by the ECS control plane
    initialDesired,      \* history: ecs in the initial state
    inv,                 \* the invocations of lambda_handler
    otherWrites,         \* number of desiredCount changes made by another actor
    notifierEnv,         \* os.environ of the process that imports lambda_sns_function.py
    lambda_sns_function, \* module globals of lambda_sns_function.py and its import state
    sns                  \* the invocation of notifyDiscordWebhook

vars == <<starterEnv, lambda_function, ecs, initialDesired, inv, otherWrites,
          notifierEnv, lambda_sns_function, sns>>

starterVars == <<starterEnv, lambda_function, ecs, initialDesired, inv,
                 otherWrites>>

notifierVars == <<notifierEnv, lambda_sns_function, sns>>

----------------------------------------------------------------------------
(* Bounds *)

NumInvocations == 2

MaxDesired == 2

MaxOtherWrites == 1

----------------------------------------------------------------------------
(* Python values *)

None == [none |-> TRUE, str |-> <<>>]

Str(s) == [none |-> FALSE, str |-> s]

\* 'us-west-2'
DEFAULT_REGION == Str(<<117, 115, 45, 119, 101, 115, 116, 45, 50>>)

\* 'minecraft'
DEFAULT_CLUSTER == Str(<<109, 105, 110, 101, 99, 114, 97, 102, 116>>)

\* 'minecraft-server'
DEFAULT_SERVICE == Str(<<109, 105, 110, 101, 99, 114, 97, 102, 116, 45, 115, 101, 114, 118, 101, 114>>)

\* Faulty variant of os_environ_get: os.environ.get(key) or default, which
\* also replaces a variable set to '' by the default.
os_environ_get_or(environ, key, default) ==
    IF environ[key].none \/ environ[key].str = <<>> THEN default
    ELSE environ[key]

\* os.environ.get(key, default): the value of a set variable (the empty
\* string included), the default for an unset one.  An unset variable is
\* None in the environment function.
os_environ_get(environ, key, default) ==
    IF environ[key].none THEN default ELSE environ[key]

\* Inputs: each of REGION, CLUSTER, SERVICE unset, set to '' or set to a
\* non-empty string ('eu', 'mc', 'srv').
RegionValues == {None, Str(<<>>), Str(<<101, 117>>)}

ClusterValues == {None, Str(<<>>), Str(<<109, 99>>)}

ServiceValues == {None, Str(<<>>), Str(<<115, 114, 118>>)}

\* Values of WEBHOOK: well-formed https URLs (a host without a port, a
\* path, with or without a query or a fragment).
\* 'https://h.io/w?k=1'
UrlWithQuery == <<104, 116, 116, 112, 115, 58, 47, 47, 104, 46, 105, 111, 47, 119, 63, 107, 61, 49>>

\* 'https://h.io/w'
UrlNoQuery == <<104, 116, 116, 112, 115, 58, 47, 47, 104, 46, 105, 111, 47, 119>>

\* 'https://h.io/w#f'
UrlWithFragment == <<104, 116, 116, 112, 115, 58, 47, 47, 104, 46, 105, 111, 47, 119, 35, 102>>

StarterEnvs ==
    { [REGION |-> r, CLUSTER |-> c, SERVICE |-> s, WEBHOOK |-> w] :
        r \in RegionValues, c \in ClusterValues, s \in ServiceValues,
        w \in {None, Str(UrlWithQuery)} }

----------------------------------------------------------------------------
(* str and bytes operations used by notifyDiscordWebhook *)

\* The first index of s at or after i whose element is in set; Len(s) + 1
\* when there is none.
RECURSIVE FindFrom(_, _, _)
FindFrom(s, i, set) ==
    IF i > Len(s) THEN Len(s) + 1
    ELSE IF s[i] \in set THEN i
    ELSE FindFrom(s, i + 1, set)

\* s[i:j] of Python with 1-based i and exclusive j.
Slice(s, i, j) == SubSeq(s, i, j - 1)

\* urllib.parse.urlparse(url) for a url 'scheme://netloc/path?query#fragment'
\* without ';' parameters: the scheme ends at the first ':', the netloc runs
\* from after '//' to the first of '/', '?', '#', the fragment starts after
\* the first '#', the query after the first '?' before it.
urlparse(url) ==
    LET colon    == FindFrom(url, 1, {58})
        scheme   == Slice(url, 1, colon)
        rest     == Slice(url, colon + 1, Len(url) + 1)
        hasNet   == Len(rest) >= 2 /\ rest[1] = 47 /\ rest[2] = 47
        netEnd   == IF hasNet THEN FindFrom(rest, 3, {47, 63, 35}) ELSE 1
        netloc   == IF hasNet THEN Slice(rest, 3, netEnd) ELSE <<>>
        tail     == Slice(rest, netEnd, Len(rest) + 1)
        hash     == FindFrom(tail, 1, {35})
        fragment == Slice(tail, hash + 1, Len(tail) + 1)
        noFrag   == Slice(tail, 1, hash)
        mark     == FindFrom(noFrag, 1, {63})
        query    == Slice(noFrag, mark + 1, Len(noFrag) + 1)
        path     == Slice(noFrag, 1, mark)
    IN [scheme |-> scheme, netloc |-> netloc, path |-> path,
        query |-> query, fragment |-> fragment]

\* '0123456789abcdef'
HexDigits == <<48, 49, 50, 51, 52, 53, 54, 55, 56, 57, 97, 98, 99, 100, 101, 102>>

\* '{:04x}'.format(n) for n < 65536
Hex4(n) ==
    << HexDigits[((n \div 4096) % 16) + 1], HexDigits[((n \div 256) % 16) + 1],
       HexDigits[((n \div 16) % 16) + 1], HexDigits[(n % 16) + 1] >>

\* '%x' % n for a byte n >= 16
Hex2(n) == << HexDigits[((n \div 16) % 16) + 1], HexDigits[(n % 16) + 1] >>

\* str(n) for an integer n >= 0
RECURSIVE str(_)
str(n) ==
    IF n < 10 THEN << 48 + n >>
    ELSE Append(str(n \div 10), 48 + (n % 10))

\* Faulty variant of EscapeAscii: the message is pasted between the quotes
\* unescaped.
EscapeAscii_Raw(c) == <<c>>

\* json's ESCAPE_ASCII replacement of one code point (ensure_ascii=True):
\* '"' and '\' get a backslash, the control characters their short or
\* \u00XX form, everything outside ' '..'~' its \uXXXX form.
EscapeAscii(c) ==
    CASE c = 34 -> <<92, 34>>
      [] c = 92 -> <<92, 92>>
      [] c = 10 -> <<92, 110>>
      [] c = 13 -> <<92, 114>>
      [] c = 9  -> <<92, 116>>
      [] c = 8  -> <<92, 98>>
      [] c = 12 -> <<92, 102>>
      [] c \notin {8, 9, 10, 12, 13, 34, 92} /\ (c < 32 \/ c > 126)
                -> <<92, 117>> \o Hex4(c)
      [] OTHER  -> <<c>>

RECURSIVE EscapeAll(_)
EscapeAll(s) ==
    IF s = <<>> THEN <<>> ELSE EscapeAscii(Head(s)) \o EscapeAll(Tail(s))

\* json.dumps(s) for a str s: the escaped text between double quotes.
json_dumps_str(s) == <<34>> \o EscapeAll(s) \o <<34>>

\* json.dumps(data) for data = {"content": message}, with the default
\* separators (', ', ': '):  {"content": "<escaped message>"}
json_dumps(data) ==
    <<123, 34, 99, 111, 110, 116, 101, 110, 116, 34, 58, 32>>
        \o json_dumps_str(data.content) \o <<125>>

\* "invalid start byte", "invalid continuation byte", "unexpected end of data"
InvalidStartByte == <<105, 110, 118, 97, 108, 105, 100, 32, 115, 116, 97, 114, 116, 32, 98, 121, 116, 101>>

InvalidContinuationByte == <<105, 110, 118, 97, 108, 105, 100, 32, 99, 111, 110, 116, 105, 110, 117, 97, 116, 105, 111, 110, 32, 98, 121, 116, 101>>

UnexpectedEndOfData == <<117, 110, 101, 120, 112, 101, 99, 116, 101, 100, 32, 101, 110, 100, 32, 111, 102, 32, 100, 97, 116, 97>>

\* bytes.decode() (UTF-8, errors='strict') from index i on, for bytes
\* outside 0xE0..0xF4 (no three- or four-byte sequences): an ASCII byte is
\* its code point, 0xC2..0xDF starts a two-byte sequence whose second byte
\* must be 0x80..0xBF, any other byte is an invalid start byte.  The result
\* is the text, or the UnicodeDecodeError's byte, 0-based position and
\* reason.
RECURSIVE DecodeFrom(_, _, _)
DecodeFrom(b, i, acc) ==
    IF i > Len(b) THEN [ok |-> TRUE, text |-> acc, byte |-> 0, pos |-> 0,
                        reason |-> <<>>]
    ELSE IF b[i] < 128 THEN DecodeFrom(b, i + 1, Append(acc, b[i]))
    ELSE IF b[i] >= 194 /\ b[i] <= 223
         THEN IF i + 1 > Len(b)
              THEN [ok |-> FALSE, text |-> <<>>, byte |-> b[i], pos |-> i - 1,
                    reason |-> UnexpectedEndOfData]
              ELSE IF b[i + 1] < 128 \/ b[i + 1] > 191
              THEN [ok |-> FALSE, text |-> <<>>, byte |-> b[i], pos |-> i - 1,
                    reason |-> InvalidContinuationByte]
              ELSE DecodeFrom(b, i + 2,
                       Append(acc, (b[i] - 192) * 64 + (b[i + 1] - 128)))
    ELSE [ok |-> FALSE, text |-> <<>>, byte |-> b[i], pos |-> i - 1,
          reason |-> InvalidStartByte]

decode(b) == DecodeFrom(b, 1, <<>>)

\* str(e) of the UnicodeDecodeError of a failed decode d:
\* "'utf-8' codec can't decode byte 0x.. in position ..: <reason>"
UnicodeDecodeErrorText(d) ==
    <<39, 117, 116, 102, 45, 56, 39, 32, 99, 111, 100, 101, 99, 32, 99, 97, 110, 39, 116, 32, 100, 101, 99, 111, 100, 101, 32, 98, 121, 116, 101, 32, 48, 120>>
        \o Hex2(d.byte)
        \o <<32, 105, 110, 32, 112, 111, 115, 105, 116, 105, 111, 110, 32>>
        \o str(d.pos) \o <<58, 32>> \o d.reason

\* The request that conn.request sends for a webhook URL and a message
\* (lambda_sns_function.py lines 13-25 without the lookup, and the same
\* lines 43-55 of lambda_function.py).
PostRequest(webhook, message) ==
    LET url == urlparse(webhook)
    IN [method  |-> "POST",
        scheme  |-> "https",
        host    |-> url.netloc,
        target  |-> url.path \o <<63>> \o url.query,
        headers |-> { <<"Content-Type", "application/json">> },
        body    |-> json_dumps([content |-> message])]

----------------------------------------------------------------------------
(* lambda_function.py: module level *)

\* Line 16: the condition under which the import raises ValueError.
MissingEnvironment(region, cluster, service) ==
    region.none \/ cluster.none \/ service.none

NotLoaded == [loaded |-> "no", REGION |-> None, CLUSTER |-> None,
              SERVICE |-> None, WEBHOOK |-> None]

\* Lines 11-17: the import of lambda_function.py (process start).
LoadLambdaFunction ==
    /\ lambda_function.loaded = "no"
    /\ LET region  == os_environ_get(starterEnv, "REGION", DEFAULT_REGION)
           cluster == os_environ_get(starterEnv, "CLUSTER", DEFAULT_CLUSTER)
           service == os_environ_get(starterEnv, "SERVICE", DEFAULT_SERVICE)
           webhook == os_environ_get(starterEnv, "WEBHOOK", None)
       IN lambda_function' =
            [loaded  |-> IF MissingEnvironment(region, cluster, service)
                         THEN "ValueError" ELSE "ok",
             REGION  |-> region,
             CLUSTER |-> cluster,
             SERVICE |-> service,
             WEBHOOK |-> webhook]
    /\ UNCHANGED <<starterEnv, ecs, initialDesired, inv, otherWrites>>
    /\ UNCHANGED notifierVars

----------------------------------------------------------------------------
(* lambda_function.py: notifyDiscordWebhook, which nothing calls *)

\* 'attempting to Start Minecraft'
AttemptingMessage == <<97, 116, 116, 101, 109, 112, 116, 105, 110, 103, 32, 116, 111, 32, 83, 116, 97, 114, 116, 32, 77, 105, 110, 101, 99, 114, 97, 102, 116>>

\* Lines 42-55: the request the function would send.
StarterPostRequest ==
    PostRequest(lambda_function.WEBHOOK.str, AttemptingMessage)

----------------------------------------------------------------------------
(* lambda_function.py: lambda_handler *)

Invocations == 1..NumInvocations

\* 'Updated desiredCount to 1'
UpdatedLine == <<85, 112, 100, 97, 116, 101, 100, 32, 100, 101, 115, 105, 114, 101, 100, 67, 111, 117, 110, 116, 32, 116, 111, 32, 49>>

\* 'desiredCount already at 1'
AlreadyLine == <<100, 101, 115, 105, 114, 101, 100, 67, 111, 117, 110, 116, 32, 97, 108, 114, 101, 97, 100, 121, 32, 97, 116, 32, 49>>

\* An invocation: pc is "idle" (not invoked), "branch" (describe_services
\* returned, line 29 done), "done" (returned) or "error" (an exception left
\* the handler, err naming the call that raised or the IndexError of line
\* 29); desired is the local of line 29; calls are the outbound calls issued
\* so far, in order; out is what print wrote.
IdleInvocation == [pc |-> "idle", desired |-> 0, calls |-> <<>>, out |-> <<>>,
                   err |-> "none"]

\* Lines 24-27: describe_services(cluster=CLUSTER, services=[SERVICE]) on
\* the client of REGION.
DescribeCall == [op |-> "describe_services", region |-> lambda_function.REGION,
                 cluster |-> lambda_function.CLUSTER,
                 services |-> << lambda_function.SERVICE >>]

\* Faulty variant of RequestedCount: desiredCount=2.
RequestedCount_Two == 1 + 1

\* Line 35: the count the handler asks for.
RequestedCount == 1

\* Lines 32-36: update_service(cluster=CLUSTER, service=SERVICE,
\* desiredCount=1) on the same client.
UpdateCall == [op |-> "update_service", region |-> lambda_function.REGION,
               cluster |-> lambda_function.CLUSTER,
               service |-> lambda_function.SERVICE,
               desiredCount |-> RequestedCount]

\* Faulty variant of NeedsStart: desired <= 1.
NeedsStart_AtMostOne(desired) == desired <= 1

\* Line 31: the branch condition.
NeedsStart(desired) == desired = 0

\* Faulty variant of StartingCalls: update_service is called again after
\* the first call.
StartingCalls_Retry == << UpdateCall, UpdateCall >>

\* Faulty variant of StartingCalls: notifyDiscordWebhook() is called before
\* the update.
StartingCalls_Notify ==
    << [op |-> "POST", request |-> StarterPostRequest], UpdateCall >>

\* Lines 31-37: the outbound calls of the desired == 0 branch, in order.
StartingCalls == << UpdateCall >>

\* Lines 23-29: the client is built and describe_services is called.  The
\* call returns the service's current desiredCount; or it returns a
\* response that lists no service (the cluster does not know the name), and
\* the subscript [0] of line 29 raises IndexError; or it raises (network,
\* authorization, throttling).  Either exception leaves the handler
\* uncaught.
Describe(i) ==
    /\ lambda_function.loaded = "ok"
    /\ inv[i].pc = "idle"
    /\ \E outcome \in {"returned", "empty", "raised"} :
         inv' = [inv EXCEPT ![i] =
                   CASE outcome = "returned" ->
                          [@ EXCEPT !.pc = "branch", !.desired = ecs,
                                    !.calls = Append(@, DescribeCall)]
                     [] outcome = "empty" ->
                          [@ EXCEPT !.pc = "error", !.err = "IndexError",
                                    !.calls = Append(@, DescribeCall)]
                     [] outcome = "raised" ->
                          [@ EXCEPT !.pc = "error", !.err = "describe_services",
                                    !.calls = Append(@, DescribeCall)]]
    /\ UNCHANGED <<starterEnv, lambda_function, ecs, initialDesired,
                   otherWrites>>
    /\ UNCHANGED notifierVars

\* Lines 31-37: desired == 0, update_service(desiredCount=1) is called; it
\* is applied and the line is printed, or it raises.
Update(i) ==
    /\ inv[i].pc = "branch"
    /\ NeedsStart(inv[i].desired)
    /\ \E ok \in BOOLEAN :
         IF ok
         THEN /\ ecs' = UpdateCall.desiredCount
              /\ inv' = [inv EXCEPT ![i] =
                           [@ EXCEPT !.pc = "done",
                                     !.calls = @ \o StartingCalls,
                                     !.out = Append(@, UpdatedLine)]]
         ELSE /\ UNCHANGED ecs
              /\ inv' = [inv EXCEPT ![i] =
                           [@ EXCEPT !.pc = "error", !.err = "update_service",
                                     !.calls = @ \o StartingCalls]]
    /\ UNCHANGED <<starterEnv, lambda_function, initialDesired, otherWrites>>
    /\ UNCHANGED notifierVars

\* Lines 38-39: desired != 0, only the line is printed.
Skip(i) ==
    /\ inv[i].pc = "branch"
    /\ ~NeedsStart(inv[i].desired)
    /\ inv' = [inv EXCEPT ![i] =
                 [@ EXCEPT !.pc = "done", !.out = Append(@, AlreadyLine)]]
    /\ UNCHANGED <<starterEnv, lambda_function, ecs, initialDesired,
                   otherWrites>>
    /\ UNCHANGED notifierVars

\* Another writer of the service (an operator, an autoscaler) sets its
\* desiredCount; the ECS API serialises it with the handlers' calls.
OtherWriter ==
    /\ otherWrites < MaxOtherWrites
    /\ \E n \in 0..MaxDesired :
         /\ n # ecs
         /\ ecs' = n
    /\ otherWrites' = otherWrites + 1
    /\ UNCHANGED <<starterEnv, lambda_function, initialDesired, inv>>
    /\ UNCHANGED notifierVars

----------------------------------------------------------------------------
(* lambda_sns_function.py: module level *)

\* Faulty variant of MissingWebhook: the presence check is left out.
MissingWebhook_Unchecked(webhook) == FALSE

\* Line 8: the condition under which the import raises ValueError.
MissingWebhook(webhook) == webhook.none

\* Lines 6-9: the import of lambda_sns_function.py (process start).
LoadLambdaSnsFunction ==
    /\ lambda_sns_function.loaded = "no"
    /\ LET webhook == os_environ_get(notifierEnv, "WEBHOOK", None)
       IN lambda_sns_function' =
            [loaded  |-> IF MissingWebhook(webhook) THEN "ValueError" ELSE "ok",
             WEBHOOK |-> webhook]
    /\ UNCHANGED <<notifierEnv, sns>>
    /\ UNCHANGED starterVars

----------------------------------------------------------------------------
(* lambda_sns_function.py: notifyDiscordWebhook *)

\* 'hello'
Hello == <<104, 101, 108, 108, 111>>

\* Message strings: 'hello', '', '"h', '\', 'e-acute newline'.
Messages == { Hello, <<>>, <<34, 104>>, <<92>>, <<233, 10>> }

\* Inbound events (Python dicts are records, lists are sequences): a
\* scheduled event without Records, an empty Records list, a record without
\* Sns, an Sns without Message, and the well-formed events with one record
\* and with two.
NoRecordsEvent == [detail |-> <<>>]

MalformedEvents ==
    { NoRecordsEvent,
      [Records |-> <<>>],
      [Records |-> << [EventSource |-> Hello] >>],
      [Records |-> << [Sns |-> [Subject |-> Hello]] >>] }

WellFormedEvents ==
    { [Records |-> << [Sns |-> [Message |-> m]] >>] : m \in Messages }
    \cup { [Records |-> << [Sns |-> [Message |-> Hello]],
                           [Sns |-> [Message |-> <<92>>]] >>],
           [Records |-> << [Sns |-> [Message |-> <<>>]],
                           [Sns |-> [Message |-> Hello]] >>] }

Events == MalformedEvents \cup WellFormedEvents

\* "'Records'", "'Sns'", "'Message'": str(KeyError(key))
KeyErrorRecords == <<39, 82, 101, 99, 111, 114, 100, 115, 39>>

KeyErrorSns == <<39, 83, 110, 115, 39>>

KeyErrorMessage == <<39, 77, 101, 115, 115, 97, 103, 101, 39>>

\* 'list index out of range'
IndexErrorText == <<108, 105, 115, 116, 32, 105, 110, 100, 101, 120, 32, 111, 117, 116, 32, 111, 102, 32, 114, 97, 110, 103, 101>>

Raised(type, text) == [ok |-> FALSE, type |-> type, text |-> text,
                       message |-> <<>>]

\* Faulty variant of LookupMessage: chained .get() calls with defaults, which
\* give '' for an event of another shape.
LookupMessage_Get(event) ==
    [ok |-> TRUE, type |-> "none", text |-> <<>>,
     message |-> IF "Records" \notin DOMAIN event THEN <<>>
                 ELSE IF Len(event.Records) = 0 THEN <<>>
                 ELSE IF "Sns" \notin DOMAIN event.Records[1] THEN <<>>
                 ELSE IF "Message" \notin DOMAIN event.Records[1].Sns THEN <<>>
                 ELSE event.Records[1].Sns.Message]

\* Line 18: event['Records'][0]['Sns']['Message'], the message or the
\* KeyError or IndexError of the first subscript that fails.
LookupMessage(event) ==
    IF "Records" \notin DOMAIN event THEN Raised("KeyError", KeyErrorRecords)
    ELSE IF Len(event.Records) = 0 THEN Raised("IndexError", IndexErrorText)
    ELSE IF "Sns" \notin DOMAIN event.Records[1]
         THEN Raised("KeyError", KeyErrorSns)
    ELSE IF "Message" \notin DOMAIN event.Records[1].Sns
         THEN Raised("KeyError", KeyErrorMessage)
    ELSE [ok |-> TRUE, type |-> "none", text |-> <<>>,
          message |-> event.Records[1].Sns.Message]

\* Line 29: the only status that is a success.
NO_CONTENT == 204

\* Line 29: the condition under which the handler raises.
IsFailure(status) == status # NO_CONTENT

\* Line 30: the text of the ValueError,
\* f'Request to Discord returned an error {status}, the response is:\n{text}'
ErrorText(status, text) ==
    <<82, 101, 113, 117, 101, 115, 116, 32, 116, 111, 32, 68, 105, 115, 99, 111, 114, 100, 32, 114, 101, 116, 117, 114, 110, 101, 100, 32, 97, 110, 32, 101, 114, 114, 111, 114, 32>>
        \o str(status)
        \o <<44, 32, 116, 104, 101, 32, 114, 101, 115, 112, 111, 110, 115, 101, 32, 105, 115, 58, 10>>
        \o text

\* Response statuses and bodies (bytes): '', 'server error', the UTF-8 of
\* e-acute, and three that are not UTF-8 (0xFF; a lead byte at the end;
\* a lead byte followed by '(').
Statuses == {200, 204, 404, 500}

\* b'server error'
ServerError == <<115, 101, 114, 118, 101, 114, 32, 101, 114, 114, 111, 114>>

Bodies == { <<>>, ServerError, <<195, 169>>, <<255>>, <<101, 195>>, <<195, 40>> }

NoError == [type |-> "none", text |-> <<>>]

\* The invocation: pc is "idle" (not invoked), "sent" (conn.request
\* returned), "done" (returned) or "error" (an exception left the handler);
\* requests are the requests handed to the connection, in order.
IdleSns == [pc |-> "idle", event |-> NoRecordsEvent, requests |-> <<>>,
            status |-> 0, body |-> <<>>, err |-> NoError]

\* Lines 13-25: the URL is parsed and the connection object built (no
\* traffic yet), the message is looked up, and the request is sent; the
\* send raises OSError when the connection cannot be made.
Request ==
    /\ lambda_sns_function.loaded = "ok"
    /\ sns.pc = "idle"
    /\ \E event \in Events, connected \in BOOLEAN :
         LET found == LookupMessage(event)
             req   == PostRequest(lambda_sns_function.WEBHOOK.str, found.message)
         IN sns' =
              IF ~found.ok
              THEN [sns EXCEPT !.pc = "error", !.event = event,
                               !.err = [type |-> found.type, text |-> found.text]]
              ELSE IF connected
              THEN [sns EXCEPT !.pc = "sent", !.event = event,
                               !.requests = Append(@, req)]
              ELSE [sns EXCEPT !.pc = "error", !.event = event,
                               !.requests = Append(@, req),
                               !.err = [type |-> "OSError", text |-> <<>>]]
    /\ UNCHANGED <<notifierEnv, lambda_sns_function>>
    /\ UNCHANGED starterVars

\* Line 26, failing: getresponse raises http.client.RemoteDisconnected (the
\* connection dropped before a status line).
NoResponse ==
    /\ sns.pc = "sent"
    /\ sns' = [sns EXCEPT !.pc = "error",
                          !.err = [type |-> "RemoteDisconnected", text |-> <<>>]]
    /\ UNCHANGED <<notifierEnv, lambda_sns_function>>
    /\ UNCHANGED starterVars

\* Lines 26-30: the response arrives; status 204 returns, any other status
\* reads and decodes the body and raises ValueError with the status and the
\* text, unless the decoding itself raises UnicodeDecodeError.
Response ==
    /\ sns.pc = "sent"
    /\ \E status \in Statuses, body \in Bodies :
         LET d == decode(body)
         IN sns' =
              IF ~IsFailure(status)
              THEN [sns EXCEPT !.pc = "done", !.status = status, !.body = body]
              ELSE IF d.ok
              THEN [sns EXCEPT !.pc = "error", !.status = status, !.body = body,
                               !.err = [type |-> "ValueError",
                                        text |-> ErrorText(status, d.text)]]
              ELSE [sns EXCEPT !.pc = "error", !.status = status, !.body = body,
                               !.err = [type |-> "UnicodeDecodeError",
                                        text |-> UnicodeDecodeErrorText(d)]]
    /\ UNCHANGED <<notifierEnv, lambda_sns_function>>
    /\ UNCHANGED starterVars

----------------------------------------------------------------------------
(* Specifications *)

NotifierEnvs ==
    { [WEBHOOK |-> w] :
        w \in {None, Str(UrlWithQuery), Str(UrlNoQuery), Str(UrlWithFragment)} }

\* REGION, CLUSTER and SERVICE unset; WEBHOOK unset or set.
DefaultStarterEnvs ==
    { e \in StarterEnvs : e.REGION.none /\ e.CLUSTER.none /\ e.SERVICE.none }

InitService ==
    /\ lambda_function = NotLoaded
    /\ ecs \in 0..MaxDesired
    /\ initialDesired = ecs
    /\ inv = [i \in Invocations |-> IdleInvocation]
    /\ otherWrites = 0

InitSns ==
    /\ lambda_sns_function = [loaded |-> "no", WEBHOOK |-> None]
    /\ sns = IdleSns

\* Every environment of lambda_function.py; lambda_sns_function.py is not
\* deployed.
InitStarter ==
    /\ starterEnv \in StarterEnvs
    /\ InitService
    /\ notifierEnv = [WEBHOOK |-> None]
    /\ InitSns

\* Every environment of lambda_sns_function.py; lambda_function.py stays
\* unloaded.
InitNotifier ==
    /\ starterEnv \in { e \in DefaultStarterEnvs : e.WEBHOOK.none }
    /\ InitService
    /\ notifierEnv \in NotifierEnvs
    /\ InitSns

\* Both functions deployed, each with WEBHOOK unset or set.
Init ==
    /\ starterEnv \in DefaultStarterEnvs
    /\ InitService
    /\ notifierEnv \in NotifierEnvs
    /\ InitSns

Handler(i) == Describe(i) \/ Update(i) \/ Skip(i)

Notifier == LoadLambdaSnsFunction \/ Request \/ NoResponse \/ Response

\* Concurrent invocations of lambda_handler and another writer.
NextStarter ==
    \/ LoadLambdaFunction
    \/ \E i \in Invocations : Handler(i)
    \/ OtherWriter

\* Concurrent invocations of lambda_handler, no other writer.
NextClosed ==
    \/ LoadLambdaFunction
    \/ \E i \in Invocations : Handler(i)

\* One process and one invocation of each function; the other invocations
\* of lambda_handler are among the other writers of the service.
Next ==
    \/ LoadLambdaFunction
    \/ Handler(1)
    \/ OtherWriter
    \/ Notifier

SpecStarter == InitStarter /\ [][NextStarter]_vars

SpecClosed == InitStarter /\ [][NextClosed]_vars

SpecNotifier == InitNotifier /\ [][Notifier]_vars

Spec == Init /\ [][Next]_vars

----------------------------------------------------------------------------
(* Properties of lambda_handler *)

UpdatesOf(i) == SelectSeq(inv[i].calls, LAMBDA c : c.op = "update_service")

DescribesOf(i) == SelectSeq(inv[i].calls, LAMBDA c : c.op = "describe_services")

\* The invocation has left the handler after describe_services returned.
CompletedAfterDescribe(i) ==
    \/ inv[i].pc = "done"
    \/ inv[i].pc = "error" /\ inv[i].err = "update_service"

\* Step i applies or attempts nothing but its update_service call.
UpdateApplied(i) ==
    /\ inv[i].pc = "branch"
    /\ inv'[i].pc = "done"
    /\ Len(inv'[i].calls) > Len(inv[i].calls)

\* C1: in an invocation whose describe_services returned, a returned
\* desiredCount of 0 leads to exactly one update_service call, issued after
\* the describe call for the same cluster and service with desiredCount = 1;
\* a returned desiredCount greater than 0 leads to no update_service call.
C1_UpdateExactlyWhenZero ==
    \A i \in Invocations :
        /\ inv[i].pc = "branch" => Len(UpdatesOf(i)) = 0
        /\ CompletedAfterDescribe(i) =>
             /\ inv[i].calls[1].op = "describe_services"
             /\ IF inv[i].desired = 0
                THEN /\ Len(inv[i].calls) = 2
                     /\ inv[i].calls[2].op = "update_service"
                     /\ inv[i].calls[2].desiredCount = 1
                     /\ inv[i].calls[2].region = inv[i].calls[1].region
                     /\ inv[i].calls[2].cluster = inv[i].calls[1].cluster
                     /\ << inv[i].calls[2].service >> = inv[i].calls[1].services
                ELSE /\ inv[i].desired > 0
                     /\ Len(UpdatesOf(i)) = 0

\* One invocation read 0 and updated, another read more than 1 and did not.
C1_Witness ==
    \E i, j \in Invocations :
        /\ inv[i].pc = "done" /\ inv[i].desired = 0 /\ Len(UpdatesOf(i)) = 1
        /\ inv[j].pc = "done" /\ inv[j].desired > 1 /\ Len(UpdatesOf(j)) = 0

ConfigNames == {"REGION", "CLUSTER", "SERVICE"}

Default(k) ==
    CASE k = "REGION"  -> DEFAULT_REGION
      [] k = "CLUSTER" -> DEFAULT_CLUSTER
      [] k = "SERVICE" -> DEFAULT_SERVICE

\* C7 as claimed: whenever lambda_function.py serves invocations, region,
\* cluster and service are all non-empty (a start that would leave one of
\* them empty fails instead).
C7_Claimed_AllNonEmpty ==
    lambda_function.loaded = "ok" =>
        \A k \in ConfigNames :
            /\ ~lambda_function[k].none
            /\ lambda_function[k].str # <<>>
            /\ starterEnv[k] = None => lambda_function[k] = Default(k)
            /\ starterEnv[k] # None => lambda_function[k] = starterEnv[k]

\* C7 as amended: process start never fails on REGION, CLUSTER and SERVICE;
\* each is present (not None) afterwards, an unset variable resolved to its
\* default and a set variable, the empty string included, to its
\* environment value, so that a value is empty exactly when its variable is
\* set to the empty string.
C7_PresentNotNonEmpty ==
    lambda_function.loaded # "no" =>
        /\ lambda_function.loaded = "ok"
        /\ \A k \in ConfigNames :
             /\ ~lambda_function[k].none
             /\ starterEnv[k] = None => lambda_function[k] = Default(k)
             /\ starterEnv[k] # None => lambda_function[k] = starterEnv[k]
             /\ lambda_function[k].str = <<>> <=> starterEnv[k] = Str(<<>>)

\* REGION set to '', CLUSTER unset, SERVICE set: the process started and an
\* invocation called describe_services with the empty region.
C7_Witness ==
    /\ starterEnv.REGION = Str(<<>>)
    /\ starterEnv.CLUSTER = None
    /\ starterEnv.SERVICE = Str(<<115, 114, 118>>)
    /\ lambda_function.loaded = "ok"
    /\ lambda_function.CLUSTER = DEFAULT_CLUSTER
    /\ \E i \in Invocations :
         /\ inv[i].pc = "done"
         /\ inv[i].calls[1].region = Str(<<>>)

AllDone == \A i \in Invocations : inv[i].pc = "done"

\* C8: with concurrent invocations as the only writers, no step lowers the
\* service's desired count, every applied update_service sets it to 1, and
\* once every invocation has returned the count is 1 if it was 0 initially
\* and its initial value otherwise.
C8_ConcurrentInvocationsConverge ==
    /\ [](AllDone => ecs = IF initialDesired = 0 THEN 1 ELSE initialDesired)
    /\ [][ /\ ecs' >= ecs
           /\ \A i \in Invocations : UpdateApplied(i) => ecs' = 1 ]_vars

\* Every invocation read 0 before any of them updated, and all have
\* returned.
C8_Witness ==
    /\ AllDone
    /\ initialDesired = 0
    /\ ecs = 1
    /\ \A i \in Invocations : inv[i].desired = 0 /\ Len(UpdatesOf(i)) = 1

\* C9 as claimed: with another writer of the service, every update_service
\* of the handler is applied while the current desired count is 0, and so
\* never lowers it.
C9_Claimed_NeverLowers ==
    [][ \A i \in Invocations : UpdateApplied(i) => ecs = 0 /\ ecs' >= ecs ]_vars

\* C9 as amended: every update_service of the handler is issued by an
\* invocation whose own describe_services returned 0, and sets the desired
\* count to 1 whatever the count has become since that read.
C9_UpdateFollowsOwnRead ==
    [][ \A i \in Invocations :
          UpdateApplied(i) => inv[i].desired = 0 /\ ecs' = 1 ]_vars

\* The other writer changed the count between an invocation's read of 0 and
\* its update: the service started at 0, was written once by the other
\* writer and is at 1 after the only update.
C9_Witness ==
    /\ initialDesired = 0
    /\ otherWrites = 1
    /\ ecs = 1
    /\ \E i \in Invocations :
         /\ inv[i].pc = "done" /\ Len(UpdatesOf(i)) = 1
         /\ \A j \in Invocations \ {i} : inv[j].pc = "idle"

\* C10: lambda_handler issues no webhook POST on any path: the outbound
\* calls of an invocation are one describe_services and at most one
\* update_service, its only failures are those of the two calls and of the
\* read of the response, and with WEBHOOK unset invocations are served all
\* the same.
C10_HandlerNeverNotifies ==
    \A i \in Invocations :
        /\ \A k \in DOMAIN inv[i].calls :
             inv[i].calls[k].op \in {"describe_services", "update_service"}
        /\ Len(DescribesOf(i)) <= 1
        /\ Len(UpdatesOf(i)) <= 1
        /\ inv[i].err \in {"none", "describe_services", "IndexError",
                           "update_service"}
        /\ inv[i].pc # "idle" => lambda_function.loaded = "ok"

\* With WEBHOOK unset, one invocation started the service, one found it
\* started and one call failed upstream.
C10_Witness ==
    /\ starterEnv.WEBHOOK = None
    /\ lambda_function.WEBHOOK = None
    /\ \E i, j \in Invocations :
         /\ inv[i].pc = "done" /\ Len(inv[i].calls) = 2
         /\ inv[j].pc = "error"

----------------------------------------------------------------------------
(* Properties of notifyDiscordWebhook *)

\* needle occurs in hay as a contiguous run.
Contains(hay, needle) ==
    \E k \in 0..(Len(hay) - Len(needle)) :
        SubSeq(hay, k + 1, k + Len(needle)) = needle

\* s[i], or -1 outside s.
At(s, i) == IF i \in 1..Len(s) THEN s[i] ELSE -1

\* JSON text, read back.  SkipSpace is the first index at or after i that
\* holds no space; StringEnd the index of the quote that closes the string
\* whose content starts at i; Unescape the string a JSON string content
\* denotes; HexValue the value of a hexadecimal digit.
RECURSIVE SkipSpace(_, _)
SkipSpace(s, i) == IF At(s, i) = 32 THEN SkipSpace(s, i + 1) ELSE i

RECURSIVE StringEnd(_, _)
StringEnd(s, i) ==
    IF i > Len(s) THEN i
    ELSE IF s[i] = 34 THEN i
    ELSE IF s[i] = 92 THEN StringEnd(s, i + 2)
    ELSE StringEnd(s, i + 1)

HexValue(c) == IF c >= 97 THEN c - 87 ELSE c - 48

RECURSIVE Unescape(_)
Unescape(s) ==
    IF s = <<>> THEN <<>>
    ELSE IF Head(s) # 92 THEN <<Head(s)>> \o Unescape(Tail(s))
    ELSE IF At(s, 2) = 117
         THEN << HexValue(At(s, 3)) * 4096 + HexValue(At(s, 4)) * 256
                 + HexValue(At(s, 5)) * 16 + HexValue(At(s, 6)) >>
              \o Unescape(SubSeq(s, 7, Len(s)))
    ELSE << CASE At(s, 2) = 110 -> 10
              [] At(s, 2) = 114 -> 13
              [] At(s, 2) = 116 -> 9
              [] At(s, 2) = 98  -> 8
              [] At(s, 2) = 102 -> 12
              [] OTHER -> At(s, 2) >>
         \o Unescape(SubSeq(s, 3, Len(s)))

\* The JSON text denotes the object with the single field key = value.
IsJsonObject(text, key, value) ==
    LET open   == SkipSpace(text, 1)
        kq     == SkipSpace(text, open + 1)
        kend   == StringEnd(text, kq + 1)
        colon  == SkipSpace(text, kend + 1)
        vq     == SkipSpace(text, colon + 1)
        vend   == StringEnd(text, vq + 1)
        close  == SkipSpace(text, vend + 1)
    IN /\ At(text, open) = 123
       /\ At(text, kq) = 34
       /\ At(text, kend) = 34
       /\ Unescape(SubSeq(text, kq + 1, kend - 1)) = key
       /\ At(text, colon) = 58
       /\ At(text, vq) = 34
       /\ At(text, vend) = 34
       /\ Unescape(SubSeq(text, vq + 1, vend - 1)) = value
       /\ At(text, close) = 125
       /\ SkipSpace(text, close + 1) = Len(text) + 1
       /\ \A k \in 1..Len(text) : text[k] >= 32 /\ text[k] <= 126

\* A response has been received.
Answered == sns.status # 0

\* C2 as claimed: once the response to the POST has arrived, the invocation
\* returns without error exactly when the status is 204, and for every
\* other status it ends in an error whose text carries the status code and
\* the response body.
C2_Claimed_StatusAndBodyInError ==
    Answered =>
        /\ sns.pc = "done" <=> sns.status = 204
        /\ sns.status # 204 =>
             /\ sns.pc = "error"
             /\ Contains(sns.err.text, str(sns.status))
             /\ decode(sns.body).ok =>
                  Contains(sns.err.text, decode(sns.body).text)

\* C4: an event without Records[0].Sns.Message ends the invocation in a
\* KeyError or IndexError, and no request is sent.
C4_MalformedEventSendsNothing ==
    (sns.pc # "idle" /\ sns.event \in MalformedEvents) =>
        /\ sns.pc = "error"
        /\ sns.err.type \in {"KeyError", "IndexError"}
        /\ sns.requests = <<>>
        /\ ~Answered

\* An event without Records was handled.
C4_Witness ==
    /\ sns.pc = "error"
    /\ sns.event = NoRecordsEvent
    /\ sns.err.type = "KeyError"

\* 'h.io', '/w', 'k=1': the parts of the three webhook URLs.
WebhookHost == <<104, 46, 105, 111>>

WebhookPath == <<47, 119>>

WebhookQuery(url) == IF url = UrlWithQuery THEN <<107, 61, 49>> ELSE <<>>

\* 'content'
ContentKey == <<99, 111, 110, 116, 101, 110, 116>>

\* C5: for a well-formed event the invocation sends exactly one request: a
\* POST over https to the host of the WEBHOOK URL, at its path followed by
\* '?' and its query, with header Content-Type: application/json and a body
\* that is the JSON object whose single field content is the message of
\* the first record.
C5_OnePostOfFirstMessage ==
    (sns.pc # "idle" /\ sns.event \in WellFormedEvents) =>
        /\ Len(sns.requests) = 1
        /\ sns.requests[1].method = "POST"
        /\ sns.requests[1].scheme = "https"
        /\ sns.requests[1].host = WebhookHost
        /\ sns.requests[1].target =
             WebhookPath \o <<63>> \o WebhookQuery(notifierEnv.WEBHOOK.str)
        /\ sns.requests[1].headers = { <<"Content-Type", "application/json">> }
        /\ IsJsonObject(sns.requests[1].body, ContentKey,
                        sns.event.Records[1].Sns.Message)

\* An event with two records was delivered to a URL without a query, and
\* one with a quote in its message to a URL with one.
C5_Witness ==
    /\ sns.pc = "done"
    /\ sns.event \in WellFormedEvents
    /\ \/ /\ Len(sns.event.Records) = 2
          /\ sns.event.Records[1].Sns.Message = Hello
          /\ notifierEnv.WEBHOOK.str = UrlNoQuery
       \/ /\ sns.event.Records[1].Sns.Message = <<34, 104>>
          /\ notifierEnv.WEBHOOK.str = UrlWithQuery

----------------------------------------------------------------------------
(* Properties of both functions *)

\* C3 as claimed: with WEBHOOK unset, the start of either process fails, so
\* that neither describe_services, update_service nor a POST is reached.
C3_Claimed_BothStartsFail ==
    /\ starterEnv.WEBHOOK = None =>
         /\ lambda_function.loaded # "ok"
         /\ \A i \in Invocations : inv[i].calls = <<>>
    /\ notifierEnv.WEBHOOK = None =>
         /\ lambda_sns_function.loaded # "ok"
         /\ sns.requests = <<>>

\* C3 as amended: with WEBHOOK unset, the start of lambda_sns_function.py
\* fails before any invocation logic runs, so that no POST is reached; the
\* start of lambda_function.py does not look at WEBHOOK and succeeds.
C3_OnlyNotifierStartFails ==
    /\ notifierEnv.WEBHOOK = None =>
         /\ lambda_sns_function.loaded \in {"no", "ValueError"}
         /\ sns = IdleSns
    /\ (starterEnv.WEBHOOK = None /\ lambda_function.loaded # "no") =>
         lambda_function.loaded = "ok"

\* With WEBHOOK unset in both environments, the notifier's start failed and
\* the starter served an invocation that updated the service.
C3_Witness ==
    /\ notifierEnv.WEBHOOK = None
    /\ lambda_sns_function.loaded = "ValueError"
    /\ starterEnv.WEBHOOK = None
    /\ inv[1].pc = "done"
    /\ Len(UpdatesOf(1)) = 1

\* C6: nothing is retried: an invocation of lambda_handler issues at most
\* one describe_services and one update_service, and one of
\* notifyDiscordWebhook at most one POST; a failed describe_services ends
\* the invocation in an error with no update_service issued, a failed
\* update_service or POST ends it in an error with that call issued once.
C6_NoRetries ==
    /\ \A i \in Invocations :
         /\ Len(DescribesOf(i)) <= 1
         /\ Len(UpdatesOf(i)) <= 1
         /\ inv[i].err \in {"describe_services", "IndexError"} =>
              inv[i].pc = "error" /\ Len(inv[i].calls) = 1 /\ Len(UpdatesOf(i)) = 0
         /\ inv[i].err = "update_service" =>
              inv[i].pc = "error" /\ Len(inv[i].calls) = 2 /\ Len(UpdatesOf(i)) = 1
         /\ inv[i].pc = "error" <=> inv[i].err # "none"
    /\ Len(sns.requests) <= 1
    /\ sns.err.type \in {"OSError", "RemoteDisconnected"} =>
         sns.pc = "error" /\ Len(sns.requests) = 1 /\ ~Answered

\* An update_service call failed, and the POST failed.
C6_Witness ==
    /\ inv[1].err = "update_service"
    /\ sns.err.type \in {"OSError", "RemoteDisconnected"}

=============================================================================
